---- MODULE Spec2Model ----
(***************************************************************************)
(* Model of src/app/page.tsx (HomePage): the instructor dashboard that     *)
(* captures an identity, lists the identity's cases, creates and deletes   *)
(* cases in a remote store.                                                *)
(*                                                                         *)
(* Strings are sequences of one-character strings.  A nullable value       *)
(* (string | null) is a sequence of length 0 (null) or 1 (the value).      *)
(***************************************************************************)
EXTENDS Integers, Sequences, FiniteSets, TLC

\* ------------------------------------------------------------------ bounds
\* longest raw input enumerated for the slug derivation
MaxLen == 3
\* most requests outstanding at once
MaxFlows == 2
\* most rows the store ever assigns a created_at to
MaxClock == 1

\* ------------------------------------------------------------- characters
UpperSeq == <<"A","B","C","D","E","F","G","H","I","J","K","L","M",
              "N","O","P","Q","R","S","T","U","V","W","X","Y","Z">>
LowerSeq == <<"a","b","c","d","e","f","g","h","i","j","k","l","m",
              "n","o","p","q","r","s","t","u","v","w","x","y","z">>
Digits == {"0","1","2","3","4","5","6","7","8","9"}
\* characters matched by \s and removed by String.prototype.trim
WhiteSpace == {" ", "\t", "\n"}
UpperLetters == {UpperSeq[i] : i \in 1..26}
LowerLetters == {LowerSeq[i] : i \in 1..26}
\* the class [a-z0-9-]
SlugChars == LowerLetters \cup Digits \cup {"-"}

\* the alphabet raw inputs are enumerated over
Alphabet == {"a", "Q", "7", "-", " ", "\t", "!"}

None == <<>>
Some(v) == <<v>>

\* ---------------------------------------------------------- string library
ToLowerChar(c) ==
  IF c \in UpperLetters
    THEN LowerSeq[CHOOSE i \in 1..26 : UpperSeq[i] = c]
    ELSE c

\* String.prototype.toLowerCase
ToLowerCase(s) == [i \in 1..Len(s) |-> ToLowerChar(s[i])]

RECURSIVE TrimStart(_)
TrimStart(s) ==
  IF s # <<>> /\ Head(s) \in WhiteSpace THEN TrimStart(Tail(s)) ELSE s

RECURSIVE TrimEnd(_)
TrimEnd(s) ==
  IF s # <<>> /\ s[Len(s)] \in WhiteSpace
    THEN TrimEnd(SubSeq(s, 1, Len(s) - 1))
    ELSE s

\* String.prototype.trim
Trim(s) == TrimEnd(TrimStart(s))

\* .replace(/\s+/g, "-"): every maximal run of whitespace becomes one hyphen
RECURSIVE ReplaceWhiteSpaceRuns(_)
ReplaceWhiteSpaceRuns(s) ==
  IF s = <<>> THEN <<>>
  ELSE IF Head(s) \in WhiteSpace
    THEN <<"-">> \o ReplaceWhiteSpaceRuns(TrimStart(s))
    ELSE <<Head(s)>> \o ReplaceWhiteSpaceRuns(Tail(s))

KeepAll(s) == s

\* .replace(/[^a-z0-9-]/g, ""): delete every character outside the class
StripNonSlugChars(s) == SelectSeq(s, LAMBDA c : c \in SlugChars)

SlugStripFirst(s) ==
  ReplaceWhiteSpaceRuns(StripNonSlugChars(ToLowerCase(Trim(s))))

\* the slug of handleCreate
Slug(s) == StripNonSlugChars(ReplaceWhiteSpaceRuns(ToLowerCase(Trim(s))))

NewCaseTitle == <<"N","e","w"," ","C","a","s","e">>

\* newTitle.trim() || "New Case"
TitleNoDefault(t) == Trim(t)

TitleOf(t) == IF Trim(t) = <<>> THEN NewCaseTitle ELSE Trim(t)

\* ------------------------------------------------------------ input sets
\* what the user may type into the identity field: two identities
EmailInputs == { <<>>, <<" ">>, <<" ", "A", "\t">>, <<"b">> }
\* what the user may type into the case-id field: one id
IdInputs == { <<>>, <<"!">>, <<" ", "X">> }
\* what the user may type into the title field
TitleInputs == { <<>>, <<" ">> }
\* the title field left alone
NoTitleInputs == { <<>> }
\* what the user may type into the case-id field: two ids
TwoIdInputs == { <<" ", "X">>, <<"y">> }
\* titles: empty, blank, and one to be trimmed
MoreTitleInputs == { <<>>, <<" ">>, <<" ", "T">> }
\* what one user may type into the identity field
OneEmailInputs == { <<>>, <<" ", "A", "\t">> }

\* whether a request may fail for a reason outside the page (the network,
\* the service): never, or at any request
NoFaults == { FALSE }
Faults == BOOLEAN

\* identities a previous session of this page may have left in localStorage
StoredIdentities(inputs) == { ToLowerCase(Trim(s)) : s \in inputs } \ { <<>> }

RECURSIVE StringsUpTo(_)
StringsUpTo(n) ==
  IF n = 0 THEN { <<>> }
  ELSE LET shorter == StringsUpTo(n - 1)
       IN  shorter \cup { Append(s, c) : s \in shorter, c \in Alphabet }

SkimsInput ==
  <<" "," ","S","K","I","M","S"," ","C","a","s","e","!","!"," ">>

\* ------------------------------------------------------------------ state
VARIABLES
  mounted,       \* the mount effects have run
  localStorage,  \* localStorage["instructor_email"], nullable
  cases,         \* useState<CaseRow[]>
  newId,         \* useState("")
  newTitle,      \* useState("")
  creating,      \* useState(false)
  loading,       \* useState(true)
  email,         \* useState<string | null>
  emailInput,    \* useState("")
  deleting,      \* useState<string | null>
  case_config,   \* remote table case_config: a set of rows
  responses,     \* remote table responses: the case_ids that have rows (the
                 \* pages that write responses are outside this model)
  clock,         \* the store's created_at source
  flows,         \* async calls awaiting a remote response, in issue order
  slug,          \* const slug of handleCreate, nullable (slug derivation only)
  fresh          \* history: the rows [id, by, known] inserted by this page with
                 \* no delete of id issued or under way since; known once the
                 \* page has received the insert's response

page == <<mounted, localStorage, cases, newId, newTitle, creating, loading,
          email, emailInput, deleting>>
remote == <<case_config, responses, clock>>
vars == <<page, remote, flows, slug, fresh>>

\* ------------------------------------------------------------- sequences
RemoveAt(s, i) == SubSeq(s, 1, i - 1) \o SubSeq(s, i + 1, Len(s))

\* rows ordered by created_at, newest first
RECURSIVE OrderDesc(_)
OrderDesc(rows) ==
  IF rows = {} THEN <<>>
  ELSE LET r == CHOOSE x \in rows : \A y \in rows : y.created_at <= x.created_at
       IN  <<r>> \o OrderDesc(rows \ {r})

\* -------------------------------------------------------------- requests
\* a call in flight: the request, whether it is answered, the data and the
\* error of the answer (data is null unless a select succeeded; the code
\* reads the data of a select and nothing else of any answer), and for a
\* select two history fields: after, the ids of fresh rows of the identity
\* the page knew of when the query was issued, and raced, whether a delete
\* of one of them was issued before the query was answered
Request(op, forEmail, id, title) ==
  [op |-> op, email |-> forEmail, id |-> id, title |-> title,
   st |-> "sent", data |-> None, error |-> FALSE, after |-> {},
   raced |-> FALSE]

SelectRequest(forEmail) == Request("select", forEmail, <<>>, <<>>)
InsertRequest(forEmail, id, title) == Request("insert", forEmail, id, title)
DeleteResponsesRequest(forEmail, id) ==
  Request("deleteResponses", forEmail, id, <<>>)
DeleteCaseRequest(forEmail, id) == Request("deleteCase", forEmail, id, <<>>)

Outstanding(op) == { i \in 1..Len(flows) : flows[i].op = op }
Answered(op) == { i \in Outstanding(op) : flows[i].st = "answered" }
Unserved(op) == { i \in Outstanding(op) : flows[i].st = "sent" }

\* ------------------------------------------------------------------ page
InitWith(inputs) ==
  /\ mounted = FALSE
  /\ localStorage \in { None } \cup { Some(e) : e \in StoredIdentities(inputs) }
  /\ cases = <<>>
  /\ newId = <<>>
  /\ newTitle = <<>>
  /\ creating = FALSE
  /\ loading = TRUE
  /\ email = None
  /\ emailInput = <<>>
  /\ deleting = None
  /\ case_config = {}
  /\ responses = {}
  /\ clock = 0
  /\ flows = <<>>
  /\ slug = None
  /\ fresh = {}

\* loadCases up to its await: setLoading(true) and the select request,
\* appended to the calls in flight fl
KnownFresh(forEmail) == { f.id : f \in { g \in fresh' : g.by = forEmail /\ g.known } }

LoadCasesCurrentEmail(fl, forEmail) ==
  /\ loading' = TRUE
  /\ flows' = Append(fl, [SelectRequest(IF email # None THEN email[1] ELSE forEmail)
                            EXCEPT !.after = KnownFresh(forEmail)])

LoadCases(fl, forEmail) ==
  /\ loading' = TRUE
  /\ flows' = Append(fl, [SelectRequest(forEmail)
                            EXCEPT !.after = KnownFresh(forEmail)])

\* the two effects run on mount
Mount ==
  /\ ~mounted
  /\ mounted' = TRUE
  /\ UNCHANGED <<localStorage, cases, newId, newTitle, creating, emailInput,
                 deleting, remote, slug, fresh>>
  /\ IF localStorage # None
       THEN /\ email' = localStorage
            /\ LoadCases(flows, localStorage[1])
       ELSE /\ loading' = FALSE
            /\ UNCHANGED <<email, flows>>

\* onChange of the identity field, shown while there is no identity
TypeEmail(inputs) ==
  /\ mounted /\ email = None
  /\ \E s \in inputs : emailInput' = s
  /\ UNCHANGED <<mounted, localStorage, cases, newId, newTitle, creating,
                 loading, email, deleting, remote, flows, slug, fresh>>

\* onChange of the case-id field, shown while there is an identity
TypeNewId(inputs) ==
  /\ mounted /\ email # None
  /\ \E s \in inputs : newId' = s
  /\ UNCHANGED <<mounted, localStorage, cases, newTitle, creating, loading,
                 email, emailInput, deleting, remote, flows, slug, fresh>>

\* onChange of the title field
TypeNewTitle(inputs) ==
  /\ mounted /\ email # None
  /\ \E s \in inputs : newTitle' = s
  /\ UNCHANGED <<mounted, localStorage, cases, newId, creating, loading,
                 email, emailInput, deleting, remote, flows, slug, fresh>>

EmailSubmitNoTrim(input) ==
  IF input = <<>>
    THEN UNCHANGED vars
    ELSE /\ Len(flows) < MaxFlows
         /\ localStorage' = Some(input)
         /\ email' = Some(input)
         /\ UNCHANGED <<mounted, cases, newId, newTitle, creating, emailInput,
                        deleting, remote, slug, fresh>>
         /\ LoadCases(flows, input)

\* handleEmailSubmit on the given field value, with the effect on [email]
EmailSubmit(input) ==
  LET trimmed == ToLowerCase(Trim(input))
  IN  IF trimmed = <<>>
        THEN UNCHANGED vars
        ELSE /\ Len(flows) < MaxFlows
             /\ localStorage' = Some(trimmed)
             /\ email' = Some(trimmed)
             /\ UNCHANGED <<mounted, cases, newId, newTitle, creating,
                            emailInput, deleting, remote, slug, fresh>>
             /\ LoadCases(flows, trimmed)

handleEmailSubmit ==
  /\ mounted /\ email = None
  /\ EmailSubmit(emailInput)

Switch ==
  /\ localStorage' = None
  /\ email' = None
  /\ emailInput' = <<>>
  /\ cases' = <<>>
  /\ loading' = FALSE
  /\ UNCHANGED <<mounted, newId, newTitle, creating, deleting, remote, flows,
                 slug, fresh>>

handleSwitch ==
  /\ mounted /\ email # None
  /\ Switch

CreateWithoutSlugCheck(rawId, rawTitle) ==
  IF email = None
    THEN UNCHANGED vars
    ELSE /\ Len(flows) < MaxFlows
         /\ creating' = TRUE
         /\ flows' = Append(flows,
                            InsertRequest(email[1], Slug(rawId), TitleOf(rawTitle)))
         /\ UNCHANGED <<mounted, localStorage, cases, newId, newTitle,
                        loading, email, emailInput, deleting, remote, slug,
                        fresh>>

\* handleCreate up to its await, on the given field values
Create(rawId, rawTitle) ==
  LET derived == Slug(rawId)
  IN  IF email = None \/ derived = <<>>
        THEN UNCHANGED vars
        ELSE /\ Len(flows) < MaxFlows
             /\ creating' = TRUE
             /\ flows' = Append(flows,
                                InsertRequest(email[1], derived, TitleOf(rawTitle)))
             /\ UNCHANGED <<mounted, localStorage, cases, newId, newTitle,
                            loading, email, emailInput, deleting, remote, slug,
                            fresh>>

handleCreateWhileCreating ==
  /\ mounted /\ email # None
  /\ Create(newId, newTitle)

\* the submit control is disabled while creating
handleCreate ==
  /\ mounted /\ email # None /\ ~creating
  /\ Create(newId, newTitle)

\* history: the unanswered queries that expect caseId have raced a delete
Raced(fl, caseId) ==
  [i \in 1..Len(fl) |->
     IF fl[i].op = "select" /\ fl[i].st = "sent" /\ caseId \in fl[i].after
       THEN [fl[i] EXCEPT !.raced = TRUE]
       ELSE fl[i]]

DeleteParentFirst(caseId, confirmed) ==
  IF email = None \/ ~confirmed
    THEN UNCHANGED vars
    ELSE /\ Len(flows) < MaxFlows
         /\ deleting' = Some(caseId)
         /\ flows' = Append(Raced(flows, caseId),
                            DeleteCaseRequest(email[1], caseId))
         /\ fresh' = { f \in fresh : f.id # caseId }
         /\ UNCHANGED <<mounted, localStorage, cases, newId, newTitle,
                        creating, loading, email, emailInput, remote, slug>>

DeleteWithoutConfirm(caseId, confirmed) ==
  IF email = None
    THEN UNCHANGED vars
    ELSE /\ Len(flows) < MaxFlows
         /\ deleting' = Some(caseId)
         /\ flows' = Append(Raced(flows, caseId),
                            DeleteResponsesRequest(email[1], caseId))
         /\ fresh' = { f \in fresh : f.id # caseId }
         /\ UNCHANGED <<mounted, localStorage, cases, newId, newTitle,
                        creating, loading, email, emailInput, remote, slug>>

\* handleDelete up to its first await; confirmed is the answer to
\* window.confirm
Delete(caseId, confirmed) ==
  IF email = None \/ ~confirmed
    THEN UNCHANGED vars
    ELSE /\ Len(flows) < MaxFlows
         /\ deleting' = Some(caseId)
         /\ flows' = Append(Raced(flows, caseId),
                            DeleteResponsesRequest(email[1], caseId))
         /\ fresh' = { f \in fresh : f.id # caseId }
         /\ UNCHANGED <<mounted, localStorage, cases, newId, newTitle,
                        creating, loading, email, emailInput, remote, slug>>

\* the rows are rendered while not loading; a row's delete control is
\* disabled while deleting is that row's id
handleDeleteWith(confirmed) ==
  /\ mounted /\ email # None /\ ~loading
  /\ \E k \in 1..Len(cases) :
       /\ deleting # Some(cases[k].id)
       /\ Delete(cases[k].id, confirmed)

handleDelete == \E confirmed \in BOOLEAN : handleDeleteWith(confirmed)

\* ------------------------------------------------------------ the store
MatchingRows(forEmail) == { r \in case_config : r.created_by = forEmail }

\* select ... eq("created_by", forEmail) order by created_at descending;
\* the data of a failed query is null
ServeSelect(faults) ==
  \E i \in Unserved("select"), fault \in faults :
    /\ flows' = [flows EXCEPT ![i].st = "answered",
                   ![i].data = IF ~fault
                                 THEN Some(OrderDesc(MatchingRows(flows[i].email)))
                                 ELSE None,
                   ![i].error = fault]
    /\ UNCHANGED <<page, remote, slug, fresh>>

DeleteUnderWay(caseId) ==
  \E j \in 1..Len(flows) :
    flows[j].op \in { "deleteResponses", "deleteCase" } /\ flows[j].id = caseId

\* insert of one row; id is the primary key, created_at is assigned here;
\* the store takes rows while its clock is below maxClock
ServeInsertUpTo(faults, maxClock) ==
  \E i \in Unserved("insert"), fault \in faults :
    LET ok == /\ ~fault
              /\ \A r \in case_config : r.id # flows[i].id
              /\ clock < maxClock
    IN
    /\ flows' = [flows EXCEPT ![i].st = "answered", ![i].error = ~ok]
    /\ IF ok
         THEN /\ case_config' = case_config \cup
                   { [id |-> flows[i].id, title |-> flows[i].title,
                      created_at |-> clock, created_by |-> flows[i].email] }
              /\ clock' = clock + 1
         ELSE UNCHANGED <<case_config, clock>>
    /\ fresh' = IF ok /\ ~DeleteUnderWay(flows[i].id)
                 THEN fresh \cup { [id |-> flows[i].id, by |-> flows[i].email,
                                    known |-> FALSE] }
                 ELSE fresh
    /\ UNCHANGED <<page, responses, slug>>

ServeInsert(faults) == ServeInsertUpTo(faults, MaxClock)

\* delete from responses where case_id = id
ServeDeleteResponses(faults) ==
  \E i \in Unserved("deleteResponses"), fault \in faults :
    /\ flows' = [flows EXCEPT ![i].st = "answered", ![i].error = fault]
    /\ responses' = IF ~fault THEN responses \ { flows[i].id } ELSE responses
    /\ UNCHANGED <<page, case_config, clock, slug, fresh>>

\* delete from case_config where id = id
ServeDeleteCase(faults) ==
  \E i \in Unserved("deleteCase"), fault \in faults :
    /\ flows' = [flows EXCEPT ![i].st = "answered", ![i].error = fault]
    /\ case_config' = IF ~fault THEN { r \in case_config : r.id # flows[i].id }
                            ELSE case_config
    /\ UNCHANGED <<page, responses, clock, slug, fresh>>

\* ------------------------------------------------- continuations of awaits
ReceiveSelectKeepOnError(i) ==
  /\ i \in Answered("select")
  /\ cases' = IF flows[i].data # None THEN flows[i].data[1] ELSE cases
  /\ loading' = FALSE
  /\ flows' = RemoveAt(flows, i)
  /\ UNCHANGED <<mounted, localStorage, newId, newTitle, creating, email,
                 emailInput, deleting, remote, slug, fresh>>

\* loadCases after its await: setCases(data ?? []); setLoading(false)
ReceiveSelectAt(i) ==
  /\ i \in Answered("select")
  /\ cases' = IF flows[i].data # None THEN flows[i].data[1] ELSE <<>>
  /\ loading' = FALSE
  /\ flows' = RemoveAt(flows, i)
  /\ UNCHANGED <<mounted, localStorage, newId, newTitle, creating, email,
                 emailInput, deleting, remote, slug, fresh>>

ReceiveSelect == \E i \in 1..Len(flows) : ReceiveSelectAt(i)

ReceiveInsertKeepOnError ==
  \E i \in Answered("insert") :
    /\ newId' = IF flows[i].error THEN newId ELSE <<>>
    /\ newTitle' = IF flows[i].error THEN newTitle ELSE <<>>
    /\ creating' = FALSE
    /\ fresh' = { IF f.id = flows[i].id /\ f.by = flows[i].email
                    THEN [f EXCEPT !.known = TRUE] ELSE f : f \in fresh }
    /\ LoadCases(RemoveAt(flows, i), flows[i].email)
    /\ UNCHANGED <<mounted, localStorage, cases, email, emailInput, deleting,
                   remote, slug>>

\* handleCreate after its await, with the email it was submitted under
ReceiveInsert ==
  \E i \in Answered("insert") :
    /\ newId' = <<>>
    /\ newTitle' = <<>>
    /\ creating' = FALSE
    /\ fresh' = { IF f.id = flows[i].id /\ f.by = flows[i].email
                    THEN [f EXCEPT !.known = TRUE] ELSE f : f \in fresh }
    /\ LoadCases(RemoveAt(flows, i), flows[i].email)
    /\ UNCHANGED <<mounted, localStorage, cases, email, emailInput, deleting,
                   remote, slug>>

ReceiveDeleteResponsesOrAbort ==
  \E i \in Answered("deleteResponses") :
    /\ flows' = IF flows[i].error
                  THEN RemoveAt(flows, i)
                  ELSE Append(RemoveAt(flows, i),
                              DeleteCaseRequest(flows[i].email, flows[i].id))
    /\ UNCHANGED <<page, remote, slug, fresh>>

\* handleDelete after its first await
ReceiveDeleteResponses ==
  \E i \in Answered("deleteResponses") :
    /\ flows' = Append(RemoveAt(flows, i),
                       DeleteCaseRequest(flows[i].email, flows[i].id))
    /\ UNCHANGED <<page, remote, slug, fresh>>

ReceiveDeleteCaseKeepMarker ==
  \E i \in Answered("deleteCase") :
    /\ UNCHANGED <<mounted, localStorage, cases, newId, newTitle, creating,
                   email, emailInput, deleting, remote, slug, fresh>>
    /\ LoadCases(RemoveAt(flows, i), flows[i].email)

\* handleDelete after its second await
ReceiveDeleteCase ==
  \E i \in Answered("deleteCase") :
    /\ deleting' = None
    /\ UNCHANGED <<mounted, localStorage, cases, newId, newTitle, creating,
                   email, emailInput, remote, slug, fresh>>
    /\ LoadCases(RemoveAt(flows, i), flows[i].email)

\* ---------------------------------------------------------- specification
Init == InitWith(EmailInputs)

\* the page with every request answered as the store decides
Next ==
  \/ Mount
  \/ TypeEmail(EmailInputs)
  \/ handleEmailSubmit
  \/ handleSwitch
  \/ TypeNewId(IdInputs)
  \/ TypeNewTitle(TitleInputs)
  \/ handleCreate
  \/ handleDelete
  \/ ServeSelect(NoFaults)
  \/ ServeInsert(NoFaults)
  \/ ServeDeleteResponses(NoFaults)
  \/ ServeDeleteCase(NoFaults)
  \/ ReceiveSelect
  \/ ReceiveInsert
  \/ ReceiveDeleteResponses
  \/ ReceiveDeleteCase

Spec == Init /\ [][Next]_vars

\* the page with requests that may fail
FaultNext ==
  \/ Mount
  \/ TypeEmail(EmailInputs)
  \/ handleEmailSubmit
  \/ handleSwitch
  \/ TypeNewId(IdInputs)
  \/ TypeNewTitle(NoTitleInputs)
  \/ handleCreate
  \/ handleDelete
  \/ ServeSelect(Faults)
  \/ ServeInsert(Faults)
  \/ ServeDeleteResponses(Faults)
  \/ ServeDeleteCase(Faults)
  \/ ReceiveSelect
  \/ ReceiveInsert
  \/ ReceiveDeleteResponses
  \/ ReceiveDeleteCase

FaultSpec == Init /\ [][FaultNext]_vars

\* one user of the page, with titles of every kind
TitleNext ==
  \/ Mount
  \/ TypeEmail(OneEmailInputs)
  \/ handleEmailSubmit
  \/ handleSwitch
  \/ TypeNewId(IdInputs)
  \/ TypeNewTitle(MoreTitleInputs)
  \/ handleCreate
  \/ handleDelete
  \/ ServeSelect(NoFaults)
  \/ ServeInsert(NoFaults)
  \/ ServeDeleteResponses(NoFaults)
  \/ ServeDeleteCase(NoFaults)
  \/ ReceiveSelect
  \/ ReceiveInsert
  \/ ReceiveDeleteResponses
  \/ ReceiveDeleteCase

TitleSpec == InitWith(OneEmailInputs) /\ [][TitleNext]_vars

\* one user of the page, with two case ids and room for two rows
RowsNext ==
  \/ Mount
  \/ TypeEmail(OneEmailInputs)
  \/ handleEmailSubmit
  \/ handleSwitch
  \/ TypeNewId(TwoIdInputs)
  \/ TypeNewTitle(NoTitleInputs)
  \/ handleCreate
  \/ handleDelete
  \/ ServeSelect(NoFaults)
  \/ ServeInsertUpTo(NoFaults, MaxClock + 1)
  \/ ServeDeleteResponses(NoFaults)
  \/ ServeDeleteCase(NoFaults)
  \/ ReceiveSelect
  \/ ReceiveInsert
  \/ ReceiveDeleteResponses
  \/ ReceiveDeleteCase

RowsSpec == InitWith(OneEmailInputs) /\ [][RowsNext]_vars

\* one user of the page; the mount effects run, every request is answered
\* and every answer is taken
FairNext ==
  \/ Mount
  \/ TypeEmail(OneEmailInputs)
  \/ handleEmailSubmit
  \/ handleSwitch
  \/ TypeNewId(IdInputs)
  \/ TypeNewTitle(NoTitleInputs)
  \/ handleCreate
  \/ handleDelete
  \/ ServeSelect(Faults)
  \/ ServeInsert(Faults)
  \/ ServeDeleteResponses(Faults)
  \/ ServeDeleteCase(Faults)
  \/ ReceiveSelect
  \/ ReceiveInsert
  \/ ReceiveDeleteResponses
  \/ ReceiveDeleteCase

FairSpec ==
  /\ InitWith(OneEmailInputs)
  /\ [][FairNext]_vars
  /\ WF_vars(Mount)
  /\ WF_vars(ServeSelect(Faults))
  /\ WF_vars(ServeInsert(Faults))
  /\ WF_vars(ServeDeleteResponses(Faults))
  /\ WF_vars(ServeDeleteCase(Faults))
  /\ WF_vars(ReceiveSelect)
  /\ WF_vars(ReceiveInsert)
  /\ WF_vars(ReceiveDeleteResponses)
  /\ WF_vars(ReceiveDeleteCase)

\* ------------------------------------------------ slug derivation alone
\* every raw input up to MaxLen over Alphabet, and the documented example
SlugInit ==
  /\ mounted = TRUE
  /\ localStorage = None
  /\ cases = <<>>
  /\ newId \in StringsUpTo(MaxLen) \cup { SkimsInput }
  /\ newTitle = <<>>
  /\ creating = FALSE
  /\ loading = FALSE
  /\ email = None
  /\ emailInput = <<>>
  /\ deleting = None
  /\ case_config = {}
  /\ responses = {}
  /\ clock = 0
  /\ flows = <<>>
  /\ slug = None
  /\ fresh = {}

\* const slug = newId.trim().toLowerCase().replace(...).replace(...)
DeriveSlug ==
  /\ slug = None
  /\ slug' = Some(Slug(newId))
  /\ UNCHANGED <<page, remote, flows, fresh>>

SlugNext == DeriveSlug

SlugSpec == SlugInit /\ [][SlugNext]_vars

\* ================================================================ claims
CaseIds == { Slug(s) : s \in IdInputs } \ { <<>> }

NumReq(fl, op, id, st) ==
  Cardinality({ i \in 1..Len(fl) :
                  fl[i].op = op /\ fl[i].id = id /\ fl[i].st = st })

HasRow(rows, id, by) ==
  \E k \in 1..Len(rows) : rows[k].id = id /\ rows[k].created_by = by

\* C1: a confirmed delete of a case id issues the delete on responses for
\* that id and not yet the delete on case_config; the delete on case_config
\* for an id is issued only in a step that takes the answer to a delete on
\* responses for the same id.
C1_DependentsBeforeParent ==
  [][\A x \in CaseIds :
       /\ (deleting' = Some(x) /\ deleting # Some(x)) =>
            /\ NumReq(flows', "deleteResponses", x, "sent")
                 = NumReq(flows, "deleteResponses", x, "sent") + 1
            /\ NumReq(flows', "deleteCase", x, "sent")
                 = NumReq(flows, "deleteCase", x, "sent")
       /\ (NumReq(flows', "deleteCase", x, "sent")
             > NumReq(flows, "deleteCase", x, "sent")) =>
            NumReq(flows', "deleteResponses", x, "answered")
              < NumReq(flows, "deleteResponses", x, "answered")]_vars

C1_Witness == \E i \in 1..Len(flows) : flows[i].op = "deleteCase"

\* C2 (as claimed): whenever there is an identity and loading is false,
\* every row of the in-memory list was created by that identity.
C2_ListShowsOnlyCurrentIdentity ==
  (email # None /\ ~loading) =>
    \A k \in 1..Len(cases) : cases[k].created_by = email[1]

C3_AnsweredBeforeDelete ==
  \A i \in Answered("select") :
    (flows[i].data # None /\ ~flows[i].raced) =>
      \A x \in flows[i].after : HasRow(flows[i].data[1], x, flows[i].email)

C4_EmptySlugIsNoOp ==
  [][(handleCreate /\ Slug(newId) = <<>>) => UNCHANGED vars]_vars

C4_Witness ==
  /\ mounted /\ email # None /\ ~creating
  /\ Trim(newId) # <<>> /\ Slug(newId) = <<>>
  /\ newTitle # <<>>

\* C5: declining the confirmation of handleDelete changes nothing: no
\* request is issued and every variable keeps its value.
C5_DeclineIsNoOp ==
  [][handleDeleteWith(FALSE) => UNCHANGED vars]_vars

C5_Witness ==
  /\ mounted /\ email # None /\ ~loading
  /\ cases # <<>> /\ deleting # Some(cases[1].id)

\* C6: the derived slug consists of lowercase letters, digits and hyphens.
C6_SlugCharset ==
  slug # None => \A i \in 1..Len(slug[1]) : slug[1][i] \in SlugChars

C6_Witness == slug # None /\ newId = <<"Q", "!", "\t">>

\* the reference of C7, read off the input by position: inside the span from
\* the first to the last non-whitespace character, a whitespace character
\* that starts a run gives a hyphen, the others of the run nothing; any
\* other character gives its lower case if that is in [a-z0-9-], else nothing
NonWhite(s) == { i \in 1..Len(s) : s[i] \notin WhiteSpace }

RefEmit(s, i) ==
  IF s[i] \in WhiteSpace
    THEN IF s[i - 1] \in WhiteSpace THEN <<>> ELSE <<"-">>
    ELSE IF ToLowerChar(s[i]) \in SlugChars
           THEN <<ToLowerChar(s[i])>>
           ELSE <<>>

RECURSIVE RefSpan(_, _, _)
RefSpan(s, i, last) ==
  IF i > last THEN <<>> ELSE RefEmit(s, i) \o RefSpan(s, i + 1, last)

RefSlug(s) ==
  IF NonWhite(s) = {} THEN <<>>
  ELSE LET first == CHOOSE i \in NonWhite(s) : \A j \in NonWhite(s) : i <= j
           last == CHOOSE i \in NonWhite(s) : \A j \in NonWhite(s) : j <= i
       IN  RefSpan(s, first, last)

SkimsSlug == <<"s","k","i","m","s","-","c","a","s","e">>

C8_SwitchResetsEverything ==
  [][handleSwitch =>
       /\ localStorage' = None
       /\ email' = None
       /\ cases' = <<>>
       /\ ~loading'
       /\ emailInput' = <<>>
       /\ newId' = <<>>
       /\ newTitle' = <<>>]_vars

IsNormalized(s) ==
  /\ s # <<>>
  /\ Head(s) \notin WhiteSpace
  /\ s[Len(s)] \notin WhiteSpace
  /\ \A i \in 1..Len(s) : s[i] \notin UpperLetters

C9_IdentityIsStoredAndNormalized ==
  /\ (mounted \/ localStorage = None) => email = localStorage
  /\ email # None => IsNormalized(email[1])
  /\ localStorage # None => IsNormalized(localStorage[1])

\* C9: an identity submit with empty or whitespace-only input changes
\* nothing; any other submit stores the input trimmed and lower-cased and
\* sets it as the identity; the identity is always null or a normalized
\* non-empty string, and once mounted (or with storage empty) equals the
\* stored value.
C9_IdentityCapture ==
  /\ []C9_IdentityIsStoredAndNormalized
  /\ [][handleEmailSubmit =>
          IF Trim(emailInput) = <<>>
            THEN UNCHANGED vars
            ELSE /\ email' = Some(ToLowerCase(Trim(emailInput)))
                 /\ localStorage' = email']_vars

C9_Witness ==
  /\ emailInput = <<" ", "A", "\t">>
  /\ email = Some(<<"a">>)
  /\ localStorage = email

\* C10 (as claimed): while a list query is outstanding, loading is true.
C10_LoadingWhileQueryOutstanding ==
  Outstanding("select") # {} => loading

\* C11 (as claimed): whenever there is an identity and no remote request is
\* outstanding, the in-memory list is the store's rows created by that
\* identity, newest first.
C11_CacheFaithfulAtQuiescence ==
  (email # None /\ flows = <<>>) =>
    cases = OrderDesc(MatchingRows(email[1]))

NumOp(fl, op) == Cardinality({ i \in 1..Len(fl) : fl[i].op = op })

C12_RowsWellFormed ==
  \A r \in case_config :
    /\ r.id # <<>>
    /\ \A k \in 1..Len(r.id) : r.id[k] \in SlugChars
    /\ r.title # <<>>
    /\ r.title = Trim(r.title)
    /\ r.created_by # <<>>

\* C12: a step that issues an insert request is a create submitted with an
\* identity and a non-empty slug, and the request carries that slug as id,
\* the trimmed title (or "New Case" when that is empty) and the identity of
\* that moment; every row of case_config has a non-empty id over [a-z0-9-],
\* a non-empty title and a creator.
C12_InsertCarriesSlugTitleIdentity ==
  /\ []C12_RowsWellFormed
  /\ [][NumOp(flows', "insert") > NumOp(flows, "insert") =>
          LET r == flows'[Len(flows')]
          IN  /\ email # None
              /\ Slug(newId) # <<>>
              /\ r.op = "insert"
              /\ r.id = Slug(newId)
              /\ r.title = IF Trim(newTitle) = <<>> THEN NewCaseTitle
                                                  ELSE Trim(newTitle)
              /\ r.email = email[1]]_vars

C12_Witness ==
  /\ \E r \in case_config : r.title = <<"T">>
  /\ \E i \in Outstanding("insert") : flows[i].title = NewCaseTitle

\* C13: creating is true exactly while an insert request is outstanding,
\* and at most one insert request is outstanding at any time.
C13_CreatingIffInsertOutstanding ==
  /\ creating <=> Outstanding("insert") # {}
  /\ Cardinality(Outstanding("insert")) <= 1

\* an insert outstanding after a switch and the entry of another identity
C13_Witness ==
  \E i \in Outstanding("insert") :
    creating /\ email # None /\ email[1] # flows[i].email

DeleteFlows(caseId) ==
  { i \in 1..Len(flows) :
      flows[i].op \in { "deleteResponses", "deleteCase" } /\ flows[i].id = caseId }

\* C14 (as claimed): while a confirmed delete of a case id is outstanding the
\* deleting marker is that id, and there is no second delete flow for the
\* same id.
C14_MarkerIsPerRow ==
  \A i \in 1..Len(flows) :
    flows[i].op \in { "deleteResponses", "deleteCase" } =>
      /\ deleting = Some(flows[i].id)
      /\ Cardinality(DeleteFlows(flows[i].id)) = 1

Identities == StoredIdentities(EmailInputs)

\* the answers to op for id issued under e that wait to be taken, by outcome
NumAns(fl, op, id, e, err) ==
  Cardinality({ i \in 1..Len(fl) :
                  /\ fl[i].op = op /\ fl[i].id = id /\ fl[i].email = e
                  /\ fl[i].st = "answered" /\ fl[i].error = err })

NumSent(fl, op, id, e) ==
  Cardinality({ i \in 1..Len(fl) :
                  /\ fl[i].op = op /\ fl[i].id = id /\ fl[i].email = e
                  /\ fl[i].st = "sent" })

\* C15: the step that takes the answer to the responses delete of a delete
\* flow, failed or not, issues the case_config delete for the same id and
\* nothing else; the step that takes the answer to the case_config delete,
\* failed or not, sets deleting to null and issues exactly one list query,
\* for the identity the delete was started under; neither step changes any
\* other variable of the page.
C15_DeleteRunsToCompletion ==
  [][\A i \in 1..Len(flows) :
       LET x == flows[i].id
           e == flows[i].email
           err == flows[i].error
       IN
       /\ (/\ flows[i].op = "deleteResponses" /\ flows[i].st = "answered"
           /\ NumAns(flows', "deleteResponses", x, e, err)
                < NumAns(flows, "deleteResponses", x, e, err)) =>
            /\ NumSent(flows', "deleteCase", x, e)
                 = NumSent(flows, "deleteCase", x, e) + 1
            /\ Len(flows') = Len(flows)
            /\ UNCHANGED page
       /\ (/\ flows[i].op = "deleteCase" /\ flows[i].st = "answered"
           /\ NumAns(flows', "deleteCase", x, e, err)
                < NumAns(flows, "deleteCase", x, e, err)) =>
            /\ deleting' = None
            /\ NumSent(flows', "select", <<>>, e)
                 = NumSent(flows, "select", <<>>, e) + 1
            /\ Len(flows') = Len(flows)
            /\ loading'
            /\ UNCHANGED <<mounted, localStorage, cases, newId, newTitle,
                           creating, email, emailInput>>]_vars

\* a delete flow has completed and issued its reload although the row is
\* still in the store
C15_Witness ==
  /\ deleting = None
  /\ Outstanding("select") # {}
  /\ \E r \in case_config :
       /\ DeleteFlows(r.id) = {}
       /\ \A f \in fresh : f.id # r.id

C16_IdsUnique ==
  \A r1, r2 \in case_config : r1.id = r2.id => r1 = r2

\* C16: ids of case_config are unique; an insert answered while a row with
\* its id exists fails and leaves the store as it was; and the step that
\* takes the answer to an insert, failed or not, empties newId and newTitle,
\* resets creating, issues exactly one list query (for the identity of the
\* submit) and changes no other variable of the page.
C16_DuplicateInsertIsSilent ==
  /\ []C16_IdsUnique
  /\ [][\A i \in 1..Len(flows) :
          LET x == flows[i].id
              e == flows[i].email
              err == flows[i].error
          IN
          /\ (/\ flows[i].op = "insert" /\ flows[i].st = "sent"
              /\ NumSent(flows', "insert", x, e) < NumSent(flows, "insert", x, e)
              /\ \E r \in case_config : r.id = x) =>
               /\ UNCHANGED remote
               /\ NumAns(flows', "insert", x, e, TRUE)
                    = NumAns(flows, "insert", x, e, TRUE) + 1
          /\ (/\ flows[i].op = "insert" /\ flows[i].st = "answered"
              /\ NumAns(flows', "insert", x, e, err)
                   < NumAns(flows, "insert", x, e, err)) =>
               /\ newId' = <<>>
               /\ newTitle' = <<>>
               /\ ~creating'
               /\ NumSent(flows', "select", <<>>, e)
                    = NumSent(flows, "select", <<>>, e) + 1
               /\ Len(flows') = Len(flows)
               /\ loading'
               /\ UNCHANGED <<mounted, localStorage, cases, email,
                              emailInput, deleting>>]_vars

\* an insert has failed on the id of a row of another identity, and its
\* answer is about to be taken
C16_Witness ==
  \E i \in Answered("insert") :
    /\ flows[i].error
    /\ \E r \in case_config :
         r.id = flows[i].id /\ r.created_by # flows[i].email

\* C17: a step that takes a call out of flight takes the answer to a list
\* query; it sets the in-memory list to the answer's rows, or to the empty
\* sequence when the query failed, sets loading to false and changes no
\* other variable of the page; an answered query that failed carries no
\* data.
C17_ResponseReplacesList ==
  /\ [](\A i \in Answered("select") : flows[i].error <=> flows[i].data = None)
  /\ [][Len(flows') < Len(flows) =>
          \E i \in Answered("select") :
            /\ flows' = RemoveAt(flows, i)
            /\ cases' = IF flows[i].error THEN <<>> ELSE flows[i].data[1]
            /\ ~loading'
            /\ UNCHANGED <<mounted, localStorage, newId, newTitle, creating,
                           email, emailInput, deleting>>]_vars

\* the answer of a failed query is about to be applied to a list with rows
C17_Witness ==
  \E i \in Answered("select") : flows[i].error /\ cases # <<>>

\* C18 (as claimed): a call that has not received its response keeps its
\* flag: loading is true while a list query is in flight, creating is true
\* while an insert is in flight, and deleting is X while a delete request
\* for X is in flight.
C18_StalledCallKeepsFlag ==
  \A i \in 1..Len(flows) :
    /\ flows[i].op = "select" => loading
    /\ flows[i].op = "insert" => creating
    /\ flows[i].op \in { "deleteResponses", "deleteCase" } =>
         deleting = Some(flows[i].id)

\* C19 (as claimed): once mounted, while there is no identity the in-memory
\* list is empty and loading is false, and a step taken without an identity
\* issues no request.
C19_NoIdentityNoRequest ==
  /\ [](mounted /\ email = None => cases = <<>> /\ ~loading)
  /\ [][email = None /\ email' = None =>
          \A op \in { "select", "insert", "deleteResponses", "deleteCase" },
             x \in CaseIds \cup { <<>> }, e \in Identities :
            NumSent(flows', op, x, e) <= NumSent(flows, op, x, e)]_vars

\* a step of the user
UserStep ==
  \/ TypeEmail(OneEmailInputs)
  \/ handleEmailSubmit
  \/ handleSwitch
  \/ TypeNewId(IdInputs)
  \/ TypeNewTitle(NoTitleInputs)
  \/ handleCreate
  \/ handleDelete

Settled ==
  /\ flows = <<>>
  /\ ~loading
  /\ ~creating
  /\ deleting = None

\* the steps a call in flight still has before it: a delete flow goes from
\* its responses delete to its case_config delete to a list query, a create
\* from its insert to a list query, each request being answered, then taken
StepsLeft(f) ==
  (IF f.op = "deleteResponses" THEN 6
   ELSE IF f.op \in { "deleteCase", "insert" } THEN 4
   ELSE 2) - (IF f.st = "answered" THEN 1 ELSE 0)

RECURSIVE TotalStepsLeft(_)
TotalStepsLeft(fl) ==
  IF fl = <<>> THEN 0 ELSE StepsLeft(Head(fl)) + TotalStepsLeft(Tail(fl))

\* C20: if the user eventually stops, then (every request being answered
\* and every answer taken) the page reaches and keeps a state with no
\* request in flight, loading false, creating false and deleting null; and
\* once mounted, every step that is not the user's brings the calls in
\* flight nearer to their end (a create is one insert and one list query, a
\* confirmed delete two deletes and one list query).
C20_PageSettles ==
  /\ <>[][~UserStep]_vars => <>[]Settled
  /\ [][(mounted /\ ~UserStep) =>
          TotalStepsLeft(flows') < TotalStepsLeft(flows)]_vars

\* settled again after a create and a delete have gone through
C20_Witness ==
  /\ Settled
  /\ mounted
  /\ clock > 0
  /\ case_config = {}
====
